---- MODULE Spec2Model ----
(***************************************************************************)
(* A model of lnb-server's post processing (src/post_process.py): one      *)
(* PostProcess() construction, i.e. read_csvs, identify_strikes, the       *)
(* strike counts and diagnostics of __init__, generate_bar,                *)
(* generate_scatter and generate_gmap, run one after the other (Spec), and *)
(* a second construction in the same process after the first (SpecRuns).   *)
(*                                                                         *)
(* Units.  Epoch_Time is kept in tenths of a second, counted from          *)
(* 1 January 00:00:00 of the (non-leap) year of the dataset; the times     *)
(* the code computes from the UTC string (ep1, ep2) are whole seconds from *)
(* the same origin.  Distances are kept in hundredths of a kilometre.      *)
(* A UTC_Time string "YYYY-MM-DDThh:mm:ssZ" is kept as the record of its   *)
(* numeric fields [M, D, h, m, s].  The gps key "(lat,lon)" that the code  *)
(* formats is kept as the pair <<lat, lon>>.                               *)
(***************************************************************************)
EXTENDS Integers, Sequences, FiniteSets

VARIABLES
    runs,               \* number of PostProcess() constructions so far
    records,            \* sum_df after sort_values(by="Epoch_Time")
    exclude,            \* EXCLUDE_DISTURBERS
    pc,                 \* position of the run inside PostProcess.__init__
    err,                \* the exception that ended the run, "" if none
    c,                  \* index of the unique-nodes loop of read_csvs
    nodes,              \* self.nodes
    start_time,         \* self.start_time
    end_time,           \* self.end_time
    i,                  \* index of the loop of identify_strikes
    ep1,                \* ep1 of identify_strikes
    strikes,            \* PostProcess.strikes
    valid_packets,      \* self.valid_packets
    disturber_packets,  \* self.disturber_packets
    valid_strikes,      \* self.valid_strikes
    disturber_strikes,  \* self.disturber_strikes
    bar,                \* what generate_bar plotted
    scatter,            \* what generate_scatter plotted
    gmaps               \* the maps generate_gmap drew

vars == <<runs, records, exclude, pc, err, c, nodes, start_time, end_time, i, ep1,
          strikes, valid_packets, disturber_packets, valid_strikes,
          disturber_strikes, bar, scatter, gmaps>>

(***************************************************************************)
(* Bounds and program constants                                            *)
(***************************************************************************)
\* Longest dataset (number of records of sum_df) the model draws.
MaxLen == 3

\* STRIKE_TIME = .5 seconds, in tenths of a second.
STRIKE_TIME == 5

\* The cap of Packet.distance and the disturber limit, 40 km, in hundredths.
MAX_DISTANCE == 4000

SECONDS_PER_MINUTE == 60

SECONDS_PER_HOUR == 3600

SECONDS_PER_DAY == 86400

\* Number of slots of daily_stk (the literal list of 25 zeros).
DAILY_SLOTS == 25

(***************************************************************************)
(* Helpers on sequences                                                    *)
(***************************************************************************)
Min(a, b) == IF a <= b THEN a ELSE b

RECURSIVE SumSeq(_)
SumSeq(s) == IF s = <<>> THEN 0 ELSE Head(s) + SumSeq(Tail(s))

RECURSIVE Flatten(_)
Flatten(ss) == IF ss = <<>> THEN <<>> ELSE Head(ss) \o Flatten(Tail(ss))

\* list.index(x): the first position (0-based) holding x, -1 standing for
\* the ValueError of a missing value.
RECURSIVE IndexFrom(_, _, _)
IndexFrom(s, x, k) ==
    IF k > Len(s) THEN -1
    ELSE IF s[k] = x THEN k - 1
    ELSE IndexFrom(s, x, k + 1)

Index(s, x) == IndexFrom(s, x, 1)

(***************************************************************************)
(* The calendar: what the producer of the csv writes as UTC_Time for an    *)
(* Epoch_Time, and what strptime/timestamp make of a UTC string            *)
(***************************************************************************)
DaysInMonth == <<31, 28, 31, 30, 31, 30, 31, 31, 30, 31, 30, 31>>

RECURSIVE DaysBefore(_)
DaysBefore(M) == IF M = 1 THEN 0 ELSE DaysInMonth[M - 1] + DaysBefore(M - 1)

\* The tenths of a second of an instant given by its calendar fields.
At(M, D, h, m, s, tenth) ==
    ((DaysBefore(M) + D - 1) * SECONDS_PER_DAY + h * SECONDS_PER_HOUR
        + m * SECONDS_PER_MINUTE + s) * 10 + tenth

RECURSIVE MonthOf(_, _)
MonthOf(dayOfYear, M) ==
    IF dayOfYear < DaysBefore(M) + DaysInMonth[M] THEN M
    ELSE MonthOf(dayOfYear, M + 1)

\* The UTC_Time column of a record whose Epoch_Time is `epoch`: the same
\* instant, written to the second.
UtcOf(epoch) ==
    LET secs == epoch \div 10
        doy  == secs \div SECONDS_PER_DAY
        mon  == MonthOf(doy, 1)
        rest == secs % SECONDS_PER_DAY
    IN  [M |-> mon,
         D |-> doy - DaysBefore(mon) + 1,
         h |-> rest \div SECONDS_PER_HOUR,
         m |-> (rest % SECONDS_PER_HOUR) \div SECONDS_PER_MINUTE,
         s |-> rest % SECONDS_PER_MINUTE]

\* datetime.timestamp(datetime.strptime(utc, '%Y-%m-%dT%H:%M:%SZ')): whole
\* seconds, the fraction of Epoch_Time is not in the string.
Timestamp(utc) ==
    (DaysBefore(utc.M) + utc.D - 1) * SECONDS_PER_DAY
        + utc.h * SECONDS_PER_HOUR + utc.m * SECONDS_PER_MINUTE + utc.s

(***************************************************************************)
(* The datasets the model draws                                            *)
(***************************************************************************)
Instants ==
    { At(1, 5, 10, 0, 0, 0), At(1, 5, 10, 0, 0, 4), At(1, 5, 10, 0, 0, 8),
      At(1, 5, 10, 0, 1, 0), At(1, 6, 23, 59, 59, 0), At(2, 5, 10, 0, 0, 0) }

\* <<GPS_Latitude, GPS_Longitude, Distance>>
Payloads ==
    { <<1, 1, 3999>>, <<1, 1, 4000>>, <<1, 2, 4100>>, <<2, 1, 1200>> }

Record(t, p) ==
    [Epoch_Time |-> t, UTC_Time |-> UtcOf(t),
     GPS_Latitude |-> p[1], GPS_Longitude |-> p[2], Distance |-> p[3]]

Rows == { Record(t, p) : t \in Instants, p \in Payloads }

IsSorted(s) ==
    \A k \in 1..(Len(s) - 1) : s[k].Epoch_Time <= s[k + 1].Epoch_Time

Datasets ==
    { s \in UNION { [1..n -> Rows] : n \in 0..MaxLen } : IsSorted(s) }

(***************************************************************************)
(* Packet and Strike                                                       *)
(***************************************************************************)
\* Packet.__init__ as it would be without the min(): the raw distance kept.
Packet_NoCap(lat, lon, dis) ==
    [gps_lat |-> lat, gps_long |-> lon, distance |-> dis]

Packet(lat, lon, dis) ==
    [gps_lat |-> lat, gps_long |-> lon, distance |-> Min(dis, MAX_DISTANCE)]

is_disturber(pack) == pack.distance >= MAX_DISTANCE

\* Strike.__init__: day, hour, minute and second are cut out of the utc
\* string; the month and the year are not kept apart from utc itself.
Strike(utc) ==
    [utc |-> utc, day |-> utc.D, hour |-> utc.h, minute |-> utc.m,
     second |-> utc.s, packet_list |-> <<>>]

only_disturbers(strike) ==
    \A k \in 1..Len(strike.packet_list) : is_disturber(strike.packet_list[k])

\* The key read_csvs and generate_scatter format as f"({lat},{lon})".
GpsKey(lat, lon) == <<lat, lon>>

PacketOf(rec) == Packet(rec.GPS_Latitude, rec.GPS_Longitude, rec.Distance)

(***************************************************************************)
(* read_csvs                                                               *)
(***************************************************************************)
\* The unique-nodes turn as it would be without the lookup: every record
\* appends its key.
RegisterNode_NoLookup(ns, gps) == Append(ns, gps)

\* One turn of the unique-nodes loop: index, and append on ValueError.
RegisterNode(ns, gps) == IF Index(ns, gps) = -1 THEN Append(ns, gps) ELSE ns

\* Selecting, reading and sorting the dataset; the unique-nodes loop starts.
ReadCsvs ==
    /\ pc = "read_csvs"
    /\ nodes' = <<>>
    /\ c' = 0
    /\ pc' = "unique_nodes"
    /\ UNCHANGED <<runs, records, exclude, err, start_time, end_time, i, ep1,
                   strikes, valid_packets, disturber_packets, valid_strikes,
                   disturber_strikes, bar, scatter, gmaps>>

UniqueNodeStep ==
    /\ pc = "unique_nodes"
    /\ c < Len(records)
    /\ nodes' = RegisterNode(nodes,
                    GpsKey(records[c + 1].GPS_Latitude,
                           records[c + 1].GPS_Longitude))
    /\ c' = c + 1
    /\ UNCHANGED <<runs, records, exclude, pc, err, start_time, end_time, i, ep1,
                   strikes, valid_packets, disturber_packets, valid_strikes,
                   disturber_strikes, bar, scatter, gmaps>>

\* The timespan of the dataset: timelist[0] raises IndexError on no rows.
\* __init__ then calls identify_strikes, whose locals start here.
Timespan ==
    /\ pc = "unique_nodes"
    /\ c = Len(records)
    /\ IF Len(records) = 0
       THEN /\ pc' = "error"
            /\ err' = "IndexError"
            /\ UNCHANGED <<start_time, end_time, i, ep1>>
       ELSE /\ start_time' = records[1].Epoch_Time
            /\ end_time' = records[Len(records)].Epoch_Time
            /\ i' = 0
            /\ ep1' = 0
            /\ pc' = "identify_strikes"
            /\ err' = err
    /\ UNCHANGED <<runs, records, exclude, c, nodes, strikes, valid_packets,
                   disturber_packets, valid_strikes, disturber_strikes, bar,
                   scatter, gmaps>>

(***************************************************************************)
(* identify_strikes                                                        *)
(***************************************************************************)
\* The locals and attributes the loop of identify_strikes reads and writes.
LoopState(a, stks, vp, dp) ==
    [ep1 |-> a, strikes |-> stks, valid_packets |-> vp,
     disturber_packets |-> dp, err |-> ""]

\* ep2-ep1 > STRIKE_TIME, ep1 and ep2 in whole seconds.
OpensStrike(ep2, anchor) == (ep2 - anchor) * 10 > STRIKE_TIME

\* The append as it would be if the list were assigned instead: the packets
\* the Strike already holds are lost.
AppendToLast_Overwrite(st, pack) ==
    IF st.strikes = <<>>
    THEN [st EXCEPT !.err = "IndexError"]
    ELSE [st EXCEPT !.strikes[Len(st.strikes)].packet_list = <<pack>>]

\* self.strikes[last].packet_list.append(pack), last = len(self.strikes)-1:
\* on an empty list last is -1 and the subscript raises IndexError.
AppendToLast(st, pack) ==
    IF st.strikes = <<>>
    THEN [st EXCEPT !.err = "IndexError"]
    ELSE [st EXCEPT !.strikes[Len(st.strikes)].packet_list = Append(@, pack)]

\* The turn of the loop as it would be if the skip of a disturber came
\* after the threshold test had moved the anchor: the skipped record's time
\* becomes ep1.
IdentifyBody_SkipMovesAnchor(st, rec, excl) ==
    LET utc  == rec.UTC_Time
        ep2  == Timestamp(utc)
        pack == PacketOf(rec)
    IN  IF excl /\ is_disturber(pack)
        THEN [st EXCEPT !.disturber_packets = @ + 1,
                        !.ep1 = IF OpensStrike(ep2, st.ep1) THEN ep2 ELSE @]
        ELSE LET counted == [st EXCEPT !.valid_packets = @ + 1]
                 opened  ==
                     IF OpensStrike(ep2, st.ep1)
                     THEN [counted EXCEPT !.ep1 = ep2,
                                          !.strikes = Append(@, Strike(utc))]
                     ELSE counted
             IN  IF opened.strikes = <<>>
                 THEN [opened EXCEPT !.err = "IndexError"]
                 ELSE [opened EXCEPT
                          !.strikes[Len(opened.strikes)].packet_list =
                              Append(@, pack)]

\* One turn of the loop of identify_strikes on the record rec.
IdentifyBody(st, rec, excl) ==
    LET utc  == rec.UTC_Time
        ep2  == Timestamp(utc)
        pack == PacketOf(rec)
    IN  IF excl /\ is_disturber(pack)
        THEN [st EXCEPT !.disturber_packets = @ + 1]
        ELSE LET counted == [st EXCEPT !.valid_packets = @ + 1]
                 opened  ==
                     IF OpensStrike(ep2, st.ep1)
                     THEN [counted EXCEPT !.ep1 = ep2,
                                          !.strikes = Append(@, Strike(utc))]
                     ELSE counted
             IN  AppendToLast(opened, pack)

\* identify_strikes as a whole on the dataset recs, from record k (1-based)
\* on: the state its loop ends in.
RECURSIVE IdentifyFrom(_, _, _, _)
IdentifyFrom(recs, k, st, excl) ==
    IF k > Len(recs) \/ st.err # ""
    THEN st
    ELSE IdentifyFrom(recs, k + 1, IdentifyBody(st, recs[k], excl), excl)

identify_strikes(recs, excl) ==
    IdentifyFrom(recs, 1, LoopState(0, <<>>, 0, 0), excl)

IdentifyStep ==
    /\ pc = "identify_strikes"
    /\ i < Len(records)
    /\ LET st == IdentifyBody(
                     LoopState(ep1, strikes, valid_packets, disturber_packets),
                     records[i + 1], exclude)
       IN  /\ ep1' = st.ep1
           /\ strikes' = st.strikes
           /\ valid_packets' = st.valid_packets
           /\ disturber_packets' = st.disturber_packets
           /\ IF st.err = ""
              THEN i' = i + 1 /\ pc' = pc /\ err' = err
              ELSE i' = i /\ pc' = "error" /\ err' = st.err
    /\ UNCHANGED <<runs, records, exclude, c, nodes, start_time, end_time,
                   valid_strikes, disturber_strikes, bar, scatter, gmaps>>

(***************************************************************************)
(* __init__ after identify_strikes: the strike counts and the diagnostics  *)
(***************************************************************************)
CountOnlyDisturbers(stks) ==
    Cardinality({ k \in 1..Len(stks) : only_disturbers(stks[k]) })

\* The loop over self.strikes, then the logging of self.strikes[0], which
\* raises IndexError on an empty list.
CountAndLog ==
    /\ pc = "identify_strikes"
    /\ i = Len(records)
    /\ disturber_strikes' = disturber_strikes + CountOnlyDisturbers(strikes)
    /\ valid_strikes' =
           valid_strikes + (Len(strikes) - CountOnlyDisturbers(strikes))
    /\ IF strikes = <<>>
       THEN pc' = "error" /\ err' = "IndexError"
       ELSE pc' = "generate_bar" /\ err' = err
    /\ UNCHANGED <<runs, records, exclude, c, nodes, start_time, end_time, i, ep1,
                   strikes, valid_packets, disturber_packets, bar, scatter,
                   gmaps>>

(***************************************************************************)
(* generate_bar                                                            *)
(***************************************************************************)
\* daily_stk as it is created for each day: 25 zeros.
ZeroSlots == [h \in 1..DAILY_SLOTS |-> 0]

\* The inner while of generate_bar, from strike k (0-based) on: one more in
\* the slot of the hour of every strike, as long as the day is `day`.
RECURSIVE DailyCount(_, _, _, _)
DailyCount(stks, k, day, daily_stk) ==
    IF k < Len(stks) /\ day = stks[k + 1].day
    THEN DailyCount(stks, k + 1, day,
                    [daily_stk EXCEPT ![stks[k + 1].hour + 1] = @ + 1])
    ELSE [c |-> k, daily_stk |-> daily_stk]

\* The outer while of generate_bar: one hourly plot per pass, and the sum
\* of its slots appended to tot_stk.
RECURSIVE BarLoop(_, _, _)
BarLoop(stks, k, acc) ==
    IF k < Len(stks)
    THEN LET day == stks[k + 1].day
             d   == DailyCount(stks, k, day, ZeroSlots)
         IN  BarLoop(stks, d.c,
                     [tot_stk |-> Append(acc.tot_stk, SumSeq(d.daily_stk)),
                      plots   |-> Append(acc.plots,
                                     [day |-> day, daily_stk |-> d.daily_stk])])
    ELSE acc

\* range(first_day, first_day + len(tot_stk))
TotTick(first_day, n) == [k \in 1..n |-> first_day + k - 1]

GenerateBar ==
    /\ pc = "generate_bar"
    /\ LET r == BarLoop(strikes, 0, [tot_stk |-> <<>>, plots |-> <<>>])
       IN  IF strikes = <<>>
           THEN /\ pc' = "error"
                /\ err' = "IndexError"
                /\ bar' = bar
           ELSE /\ bar' = [plots    |-> r.plots,
                           tot_stk  |-> r.tot_stk,
                           tot_tick |-> TotTick(strikes[1].day, Len(r.tot_stk))]
                /\ pc' = "generate_scatter"
                /\ err' = err
    /\ UNCHANGED <<runs, records, exclude, c, nodes, start_time, end_time, i, ep1,
                   strikes, valid_packets, disturber_packets, valid_strikes,
                   disturber_strikes, scatter, gmaps>>

(***************************************************************************)
(* generate_scatter                                                        *)
(***************************************************************************)
\* Number of entries of color_list.
COLOR_COUNT == 9

\* One empty list per node.
EmptyPerNode(ns) == [n \in 1..Len(ns) |-> <<>>]

\* The key as it would be with latitude and longitude swapped.
ScatterKey_Swapped(packet) == GpsKey(packet.gps_long, packet.gps_lat)

\* gps of generate_scatter: the key of the packet's own coordinates.
ScatterKey(packet) == GpsKey(packet.gps_lat, packet.gps_long)

\* The for loop over strike.packet_list, from packet k (1-based) on:
\* self.nodes.index(gps) (ValueError when the key is missing), then the four
\* appends at that index.
RECURSIVE ScatterPackets(_, _, _, _, _, _)
ScatterPackets(ns, acc, packs, k, day_time, trip_time) ==
    IF k > Len(packs) \/ acc.err # ""
    THEN acc
    ELSE LET packet == packs[k]
             index  == Index(ns, ScatterKey(packet))
         IN  IF index = -1
             THEN [acc EXCEPT !.err = "ValueError"]
             ELSE ScatterPackets(ns,
                      [acc EXCEPT
                          !.daily_tm[index + 1]  = Append(@, day_time),
                          !.tot_tm[index + 1]    = Append(@, trip_time),
                          !.daily_stk[index + 1] = Append(@, packet.distance),
                          !.tot_stk[index + 1]   = Append(@, packet.distance)],
                      packs, k + 1, day_time, trip_time)

\* day_time as it would be with the minutes weighted like the hours.
DayTime_MinutesAsHours(strike) ==
    strike.second + strike.minute * SECONDS_PER_HOUR
        + strike.hour * SECONDS_PER_HOUR

\* day_time: the graphable time of a strike in seconds.
DayTime(strike) ==
    strike.second + strike.minute * SECONDS_PER_MINUTE
        + strike.hour * SECONDS_PER_HOUR

\* trip_time: day_time moved by the day of the month.
TripTime(strike) == DayTime(strike) + strike.day * SECONDS_PER_DAY

\* One strike of the inner while: day_time, trip_time, the day range, and
\* the packets of the strike.
ScatterStrike(ns, acc, strike) ==
    LET day_time  == DayTime(strike)
        trip_time == TripTime(strike)
        started   == IF acc.start_day = 0 \/ acc.start_day > strike.day
                     THEN [acc EXCEPT !.start_day = strike.day]
                     ELSE acc
        ended     == IF started.end_day < strike.day
                     THEN [started EXCEPT !.end_day = strike.day]
                     ELSE started
    IN  ScatterPackets(ns, ended, strike.packet_list, 1, day_time, trip_time)

\* The inner while of generate_scatter, from strike k (0-based) on.
RECURSIVE ScatterDay(_, _, _, _, _)
ScatterDay(ns, stks, k, day, acc) ==
    IF k < Len(stks) /\ day = stks[k + 1].day /\ acc.err = ""
    THEN ScatterDay(ns, stks, k + 1, day, ScatterStrike(ns, acc, stks[k + 1]))
    ELSE [acc EXCEPT !.c = k]

\* The outer while of generate_scatter: the daily lists are emptied, the
\* strikes of one day are appended, and the day is plotted with one colour
\* per node (IndexError past the end of color_list).
RECURSIVE ScatterLoop(_, _, _, _)
ScatterLoop(ns, stks, k, acc) ==
    IF k < Len(stks) /\ acc.err = ""
    THEN LET day == stks[k + 1].day
             d   == ScatterDay(ns, stks, k, day,
                        [acc EXCEPT !.daily_tm = EmptyPerNode(ns),
                                    !.daily_stk = EmptyPerNode(ns)])
         IN  IF d.err # "" THEN d
             ELSE IF Len(ns) > COLOR_COUNT
             THEN [d EXCEPT !.err = "IndexError"]
             ELSE ScatterLoop(ns, stks, d.c,
                      [d EXCEPT !.plots = Append(@,
                          [day |-> day, daily_tm |-> d.daily_tm,
                           daily_stk |-> d.daily_stk])])
    ELSE acc

ScatterStart(ns) ==
    [c |-> 0, err |-> "", start_day |-> 0, end_day |-> 0,
     tot_tm |-> EmptyPerNode(ns), tot_stk |-> EmptyPerNode(ns),
     daily_tm |-> <<>>, daily_stk |-> <<>>, plots |-> <<>>]

GenerateScatter ==
    /\ pc = "generate_scatter"
    /\ LET r == ScatterLoop(nodes, strikes, 0, ScatterStart(nodes))
       IN  IF r.err # ""
           THEN pc' = "error" /\ err' = r.err /\ scatter' = scatter
           ELSE IF Len(nodes) > COLOR_COUNT
           THEN pc' = "error" /\ err' = "IndexError" /\ scatter' = scatter
           ELSE /\ scatter' = [plots |-> r.plots, tot_tm |-> r.tot_tm,
                               tot_stk |-> r.tot_stk,
                               start_day |-> r.start_day,
                               end_day |-> r.end_day]
                /\ pc' = "generate_gmap"
                /\ err' = err
    /\ UNCHANGED <<runs, records, exclude, c, nodes, start_time, end_time, i, ep1,
                   strikes, valid_packets, disturber_packets, valid_strikes,
                   disturber_strikes, bar, gmaps>>

(***************************************************************************)
(* generate_gmap                                                           *)
(***************************************************************************)
\* Strike.to_filename: the fields of the name and the _disturbers suffix.
to_filename(strike) ==
    [day |-> strike.day, hour |-> strike.hour, minute |-> strike.minute,
     second |-> strike.second, disturbers |-> only_disturbers(strike)]

\* One map per strike, with one marker and one circle per packet.
GenerateGmap ==
    /\ pc = "generate_gmap"
    /\ gmaps' = [k \in 1..Len(strikes) |->
                    [name    |-> to_filename(strikes[k]),
                     circles |-> [p \in 1..Len(strikes[k].packet_list) |->
                         <<strikes[k].packet_list[p].gps_lat,
                           strikes[k].packet_list[p].gps_long,
                           strikes[k].packet_list[p].distance>>]]]
    /\ pc' = "done"
    /\ UNCHANGED <<runs, records, exclude, err, c, nodes, start_time, end_time, i,
                   ep1, strikes, valid_packets, disturber_packets,
                   valid_strikes, disturber_strikes, bar, scatter>>

(***************************************************************************)
(* The run                                                                 *)
(***************************************************************************)
\* The class attributes of PostProcess as the module is loaded, and a
\* dataset and a setting of EXCLUDE_DISTURBERS for the run.
Init ==
    /\ runs = 1
    /\ records \in Datasets
    /\ exclude \in BOOLEAN
    /\ pc = "read_csvs"
    /\ err = ""
    /\ c = 0
    /\ nodes = <<>>
    /\ start_time = 0
    /\ end_time = 0
    /\ i = 0
    /\ ep1 = 0
    /\ strikes = <<>>
    /\ valid_packets = 0
    /\ disturber_packets = 0
    /\ valid_strikes = 0
    /\ disturber_strikes = 0
    /\ bar = [plots |-> <<>>, tot_stk |-> <<>>, tot_tick |-> <<>>]
    /\ scatter = [plots |-> <<>>, tot_tm |-> <<>>, tot_stk |-> <<>>,
                  start_day |-> 0, end_day |-> 0]
    /\ gmaps = <<>>

Next ==
    \/ ReadCsvs
    \/ UniqueNodeStep
    \/ Timespan
    \/ IdentifyStep
    \/ CountAndLog
    \/ GenerateBar
    \/ GenerateScatter
    \/ GenerateGmap

Spec == Init /\ [][Next]_vars

(***************************************************************************)
(* Two constructions in one process                                        *)
(***************************************************************************)
\* Constructions in one process.
MaxRuns == 2

\* Longest dataset of a run when there are several.
MaxRunLen == 2

RunInstants ==
    { At(1, 5, 10, 0, 0, 0), At(1, 5, 10, 0, 1, 0), At(1, 7, 10, 0, 0, 0) }

RunPayloads == { <<1, 1, 1200>>, <<1, 2, 4100>> }

RunRows == { Record(t, p) : t \in RunInstants, p \in RunPayloads }

RunDatasets ==
    { s \in UNION { [1..n -> RunRows] : n \in 0..MaxRunLen } : IsSorted(s) }

\* The first construction of a process that may construct again.
InitRuns ==
    /\ runs = 1
    /\ records \in RunDatasets
    /\ exclude \in BOOLEAN
    /\ pc = "read_csvs"
    /\ err = ""
    /\ c = 0
    /\ nodes = <<>>
    /\ start_time = 0
    /\ end_time = 0
    /\ i = 0
    /\ ep1 = 0
    /\ strikes = <<>>
    /\ valid_packets = 0
    /\ disturber_packets = 0
    /\ valid_strikes = 0
    /\ disturber_strikes = 0
    /\ bar = [plots |-> <<>>, tot_stk |-> <<>>, tot_tick |-> <<>>]
    /\ scatter = [plots |-> <<>>, tot_tm |-> <<>>, tot_stk |-> <<>>,
                  start_day |-> 0, end_day |-> 0]
    /\ gmaps = <<>>

\* PostProcess() once more, after a construction that returned: the new
\* object reads the class attributes.  nodes, sum_df, the times and the four
\* counters were only ever rebound on the earlier object (self.x = ...,
\* self.x += 1), so the class still holds their initial values; strikes was
\* appended to in place, so the class list holds what the earlier run put
\* there.  The plots written stay on disk until they are written again.
Construct ==
    /\ pc = "done"
    /\ runs < MaxRuns
    /\ runs' = runs + 1
    /\ records' \in RunDatasets
    /\ pc' = "read_csvs"
    /\ c' = 0
    /\ nodes' = <<>>
    /\ start_time' = 0
    /\ end_time' = 0
    /\ i' = 0
    /\ ep1' = 0
    /\ valid_packets' = 0
    /\ disturber_packets' = 0
    /\ valid_strikes' = 0
    /\ disturber_strikes' = 0
    /\ UNCHANGED <<exclude, err, strikes, bar, scatter, gmaps>>

NextRuns ==
    \/ Next
    \/ Construct

SpecRuns == InitRuns /\ [][NextRuns]_vars

(***************************************************************************)
(* Vocabulary of the properties                                            *)
(***************************************************************************)
\* identify_strikes has been entered (its loop may still be running).
Clustering == pc \notin {"read_csvs", "unique_nodes"} /\ Len(records) > 0

\* identify_strikes has returned and __init__ went on.
Clustered == pc \in {"generate_bar", "generate_scatter", "generate_gmap", "done"}

PacketLists(stks) == [k \in 1..Len(stks) |-> stks[k].packet_list]

\* Every packet of every strike, in strike order.
AllPackets(stks) == Flatten(PacketLists(stks))

\* The strike that holds the n-th packet of AllPackets(stks).
RECURSIVE StrikeHolding(_, _, _)
StrikeHolding(stks, n, k) ==
    IF n <= Len(stks[k].packet_list) THEN k
    ELSE StrikeHolding(stks, n - Len(stks[k].packet_list), k + 1)

StrikeOf(n) == StrikeHolding(strikes, n, 1)

\* The position in AllPackets of the packet that opened the strike of the
\* n-th packet.
OpenerOf(n) ==
    Len(Flatten(SubSeq(PacketLists(strikes), 1, StrikeOf(n) - 1))) + 1

\* The records whose raw distance is below 40 km.
NonDisturbers(recs) == SelectSeq(recs, LAMBDA r : r.Distance < MAX_DISTANCE)

\* The records that reach the clustering step.
Kept(recs) == IF exclude THEN NonDisturbers(recs) ELSE recs

(***************************************************************************)
(* C1                                                                      *)
(***************************************************************************)
\* C1: with disturber exclusion off, the packet lists of the Strikes,
\* concatenated in Strike order, are the packets of the records read so far
\* in their order (at the end: of the whole input), and no Strike is empty.
C1_Partition ==
    (~exclude /\ Clustering) =>
        /\ AllPackets(strikes) = [k \in 1..i |-> PacketOf(records[k])]
        /\ \A k \in 1..Len(strikes) : strikes[k].packet_list # <<>>
        /\ (pc # "identify_strikes" => i = Len(records))

\* Three records have been clustered into two Strikes, one of two packets.
C1_Witness ==
    /\ ~exclude
    /\ Clustered
    /\ Len(records) = 3
    /\ Len(strikes) = 2
    /\ \E k \in 1..2 : Len(strikes[k].packet_list) = 2

(***************************************************************************)
(* C2                                                                      *)
(***************************************************************************)
\* C2: the decision is taken on the epoch times, against STRIKE_TIME: a
\* record that follows the opener of a Strike by at most 0.5 s of Epoch_Time
\* is in that Strike, and two consecutive records more than 0.5 s apart are
\* in different Strikes.
C2_ThresholdOnEpochTime ==
    (~exclude /\ Clustered) =>
        \A k \in 1..(Len(records) - 1) :
            LET gap == records[k + 1].Epoch_Time - records[k].Epoch_Time
            IN  /\ (gap > STRIKE_TIME => StrikeOf(k + 1) # StrikeOf(k))
                /\ (gap <= STRIKE_TIME /\ OpenerOf(k) = k
                        => StrikeOf(k + 1) = StrikeOf(k))

(***************************************************************************)
(* C3                                                                      *)
(***************************************************************************)
\* C3: the gap is measured from the anchor of the current Strike, the time
\* of the packet that opened it: a packet is merged into the Strike of the
\* packet before it iff its time minus the time of that Strike's opener is
\* at most the threshold (so a chain of packets each within the threshold of
\* its predecessor is split once a packet is more than the threshold after
\* the opener).
C3_GapFromAnchor ==
    (~exclude /\ Clustered) =>
        \A k \in 2..Len(records) :
            (StrikeOf(k) = StrikeOf(k - 1))
                <=> (records[k].Epoch_Time
                         - records[OpenerOf(k - 1)].Epoch_Time <= STRIKE_TIME)

(***************************************************************************)
(* C4                                                                      *)
(***************************************************************************)
\* C4: the distance a Packet stores is min(d, 40) of the raw distance d of
\* its record, and the packet is a disturber iff d >= 40: with exclusion
\* off the k-th stored packet holds exactly 40 and is flagged when d >= 40
\* and holds d unflagged when d < 40; with exclusion on the packets counted
\* as disturbers are the records read so far with d >= 40.
C4_DisturberCap ==
    Clustering =>
        /\ ~exclude =>
              \A k \in 1..Len(AllPackets(strikes)) :
                  LET pack == AllPackets(strikes)[k]
                      d    == records[k].Distance
                  IN  /\ d >= MAX_DISTANCE =>
                            pack.distance = MAX_DISTANCE /\ is_disturber(pack)
                      /\ d < MAX_DISTANCE =>
                            pack.distance = d /\ ~is_disturber(pack)
        /\ exclude =>
              /\ disturber_packets =
                     Cardinality({ k \in 1..i :
                                     records[k].Distance >= MAX_DISTANCE })
              /\ \A k \in 1..Len(AllPackets(strikes)) :
                     AllPackets(strikes)[k].distance < MAX_DISTANCE

\* Packets of raw distance 39.99, 40 and 41 km have been stored.
C4_Witness ==
    /\ ~exclude
    /\ Clustered
    /\ Len(AllPackets(strikes)) = 3
    /\ \E k \in 1..3 : records[k].Distance > MAX_DISTANCE
    /\ \E k \in 1..3 : records[k].Distance = MAX_DISTANCE
    /\ \E k \in 1..3 : records[k].Distance = MAX_DISTANCE - 1

(***************************************************************************)
(* C5                                                                      *)
(***************************************************************************)
\* C5: with EXCLUDE_DISTURBERS on, what identify_strikes has built from the
\* records read so far (the Strikes, the anchor and the count of valid
\* packets) is what it builds with exclusion off from those records with
\* every record of distance >= 40 removed: no disturber is in a Strike,
\* every other packet is there once and in order, and a skipped disturber
\* neither moves the anchor nor opens a Strike.
C5_ExclusionIsFiltering ==
    (exclude /\ Clustering) =>
        LET off == identify_strikes(
                       NonDisturbers(SubSeq(records, 1, i)), FALSE)
        IN  /\ strikes = off.strikes
            /\ ep1 = off.ep1
            /\ valid_packets = off.valid_packets
            /\ AllPackets(strikes) =
                   [k \in 1..Len(NonDisturbers(SubSeq(records, 1, i))) |->
                       PacketOf(NonDisturbers(SubSeq(records, 1, i))[k])]

\* A disturber that arrived a second after the first Strike was opened has
\* been skipped, and the record after it opened the second Strike.
C5_Witness ==
    /\ exclude
    /\ Clustered
    /\ Len(records) = 3
    /\ records[2].Distance >= MAX_DISTANCE
    /\ Timestamp(records[2].UTC_Time) > Timestamp(records[1].UTC_Time)
    /\ Timestamp(records[3].UTC_Time) = Timestamp(records[2].UTC_Time)
    /\ disturber_packets = 1
    /\ Len(strikes) = 2

(***************************************************************************)
(* C6                                                                      *)
(***************************************************************************)
\* The position (1-based) of the first of the records seen whose
\* coordinates are gps.
FirstSeen(gps) ==
    CHOOSE k \in 1..c :
        /\ <<records[k].GPS_Latitude, records[k].GPS_Longitude>> = gps
        /\ \A j \in 1..(k - 1) :
               <<records[j].GPS_Latitude, records[j].GPS_Longitude>> # gps

\* The node list holds the coordinate pairs of the records seen so far,
\* each once, in first-seen order.
NodesAreFirstSeen ==
    pc # "read_csvs" =>
        /\ { nodes[n] : n \in 1..Len(nodes) } =
               { <<records[k].GPS_Latitude, records[k].GPS_Longitude>> :
                     k \in 1..c }
        /\ \A a, b \in 1..Len(nodes) :
               /\ (a # b => nodes[a] # nodes[b])
               /\ (a < b => FirstSeen(nodes[a]) < FirstSeen(nodes[b]))
        /\ (pc # "unique_nodes" => c = Len(records))

\* The node list only grows at its end.
NodesOnlyGrow ==
    /\ Len(nodes') >= Len(nodes)
    /\ \A n \in 1..Len(nodes) : nodes'[n] = nodes[n]

\* C6: during and after the registry pass of read_csvs the node list holds
\* each distinct (latitude, longitude) pair of the records seen exactly
\* once, in first-seen order (so equal pairs have one index and different
\* pairs different indices), and the list only grows: an index once
\* assigned never changes.
C6_NodeRegistry == []NodesAreFirstSeen /\ [][NodesOnlyGrow]_vars

\* The pass is over three records of two nodes: one pair was seen twice.
C6_Witness ==
    /\ pc = "identify_strikes"
    /\ Len(records) = 3
    /\ Len(nodes) = 2
    /\ nodes[1][1] = nodes[2][1]

(***************************************************************************)
(* C7                                                                      *)
(***************************************************************************)
\* generate_bar has returned.
BarDone == pc \in {"generate_scatter", "generate_gmap", "done"}

\* C7: the slots of every hourly table generate_bar built sum to the number
\* of Strikes whose day is the day of the table, the entry of the
\* total-strikes-per-day series for that table is the same number, and the
\* series sums to the number of Strikes.
C7_TablePerDay ==
    BarDone =>
        /\ \A p \in 1..Len(bar.plots) :
               LET ofDay == Cardinality({ k \in 1..Len(strikes) :
                                            strikes[k].day = bar.plots[p].day })
               IN  /\ SumSeq(bar.plots[p].daily_stk) = ofDay
                   /\ bar.tot_stk[p] = ofDay
        /\ SumSeq(bar.tot_stk) = Len(strikes)

(***************************************************************************)
(* C8                                                                      *)
(***************************************************************************)
\* generate_scatter has returned.
ScatterDone == pc \in {"generate_gmap", "done"}

RECURSIVE SumLen(_)
SumLen(ss) == IF ss = <<>> THEN 0 ELSE Len(Head(ss)) + SumLen(Tail(ss))

\* The packets of the Strikes whose own coordinates are those of node n.
PacketsOfNode(n) ==
    SelectSeq(AllPackets(strikes),
              LAMBDA pk : <<pk.gps_lat, pk.gps_long>> = nodes[n])

\* C8: the lookup of a packet's coordinates in the node list never fails,
\* and after generate_scatter the cumulative series have one entry per
\* packet of the Strikes (per record with exclusion off, per non-disturber
\* record with exclusion on): the series of each node holds the packets of
\* that node's coordinates, in order, and nothing else.
C8_ScatterConservation ==
    /\ err # "ValueError"
    /\ ScatterDone =>
           /\ Len(scatter.tot_tm) = Len(nodes)
           /\ Len(scatter.tot_stk) = Len(nodes)
           /\ SumLen(scatter.tot_tm) = Len(AllPackets(strikes))
           /\ SumLen(scatter.tot_stk) = Len(Kept(records))
           /\ \A n \in 1..Len(nodes) :
                  /\ Len(scatter.tot_tm[n]) = Len(PacketsOfNode(n))
                  /\ scatter.tot_stk[n] =
                         [k \in 1..Len(PacketsOfNode(n)) |->
                             PacketsOfNode(n)[k].distance]

\* With exclusion on, a disturber was dropped and the two packets left, of
\* two different nodes, are in the series.
C8_Witness ==
    /\ pc = "done"
    /\ exclude
    /\ disturber_packets = 1
    /\ Len(AllPackets(strikes)) = 2
    /\ \E a, b \in 1..Len(nodes) :
           a # b /\ Len(scatter.tot_tm[a]) = 1 /\ Len(scatter.tot_tm[b]) = 1

(***************************************************************************)
(* C9                                                                      *)
(***************************************************************************)
\* The records that reach the clustering step and come from node n.
KeptOfNode(n) ==
    SelectSeq(Kept(records),
              LAMBDA r : <<r.GPS_Latitude, r.GPS_Longitude>> = nodes[n])

\* Seconds since midnight of a UTC time.
SinceMidnight(utc) ==
    utc.h * SECONDS_PER_HOUR + utc.m * SECONDS_PER_MINUTE + utc.s

\* The daily series of node n, over all the daily plots in their order.
DailyTmOfNode(n) ==
    Flatten([p \in 1..Len(scatter.plots) |-> scatter.plots[p].daily_tm[n]])

DailyStkOfNode(n) ==
    Flatten([p \in 1..Len(scatter.plots) |-> scatter.plots[p].daily_stk[n]])

\* C9 (as amended): for every packet generate_scatter appends to the
\* packet's node the pair (offset, distance), the distance being the capped
\* one; in the daily series the offset is the number of seconds since
\* midnight of the packet's own UTC time, and in the cumulative series it is
\* that number plus 86400 times the day of the month.
C9_ScatterOffsets ==
    ScatterDone =>
        \A n \in 1..Len(nodes) :
            LET own == KeptOfNode(n)
            IN  /\ DailyTmOfNode(n) =
                       [k \in 1..Len(own) |-> SinceMidnight(own[k].UTC_Time)]
                /\ scatter.tot_tm[n] =
                       [k \in 1..Len(own) |->
                           SinceMidnight(own[k].UTC_Time)
                               + own[k].UTC_Time.D * SECONDS_PER_DAY]
                /\ DailyStkOfNode(n) =
                       [k \in 1..Len(own) |-> Min(own[k].Distance, MAX_DISTANCE)]
                /\ scatter.tot_stk[n] =
                       [k \in 1..Len(own) |-> Min(own[k].Distance, MAX_DISTANCE)]

\* Two days have been plotted and one node has two packets in its series.
C9_Witness ==
    /\ pc = "done"
    /\ Len(scatter.plots) = 2
    /\ \E n \in 1..Len(nodes) : Len(scatter.tot_tm[n]) = 2

\* C9 (as claimed): the offset of the cumulative series is the number of
\* seconds elapsed since the dataset's start, so it is 0 for the earliest
\* packet and never decreases along a node's series.
C9_CumulativeFromDatasetStart ==
    ScatterDone =>
        \A n \in 1..Len(nodes) :
            LET own == KeptOfNode(n)
            IN  /\ scatter.tot_tm[n] =
                       [k \in 1..Len(own) |->
                           Timestamp(own[k].UTC_Time)
                               - Timestamp(records[1].UTC_Time)]
                /\ \A k \in 1..(Len(own) - 1) :
                       scatter.tot_tm[n][k] <= scatter.tot_tm[n][k + 1]

(***************************************************************************)
(* C10                                                                     *)
(***************************************************************************)
\* C10: a run whose clustering has ended with zero Strikes is a valid "no
\* data" run: it does not end in an error.
C10_NoDataIsValid ==
    (Clustering /\ i = Len(records) /\ strikes = <<>>) => pc # "error"

(***************************************************************************)
(* C11                                                                     *)
(***************************************************************************)
\* What identify_strikes builds from the input of the current run alone.
OwnStrikes == identify_strikes(records, exclude).strikes

\* C11: every run owns its Strike list and its node list: once a run has
\* clustered its input, the Strike list holds the Strikes built from that
\* run's input and no others, the node list holds coordinates of that
\* run's records only, and the strike counts and the total-strikes series
\* of the run count the Strikes of its own input only.
C11_RunOwnsItsLists ==
    Clustered =>
        /\ strikes = OwnStrikes
        /\ \A n \in 1..Len(nodes) :
               \E k \in 1..Len(records) :
                   nodes[n] = <<records[k].GPS_Latitude,
                                records[k].GPS_Longitude>>
        /\ valid_strikes + disturber_strikes = Len(OwnStrikes)
        /\ (BarDone => SumSeq(bar.tot_stk) = Len(OwnStrikes))

(***************************************************************************)
(* C12                                                                     *)
(***************************************************************************)
\* C12: in a run that started on an empty Strike list, the
\* total-strikes-per-day series has one bar per distinct day value of the
\* Strikes, and the tick of the k-th bar is the day of the Strikes the bar
\* counts.
C12_OneBarPerDay ==
    (runs = 1 /\ BarDone) =>
        /\ Len(bar.tot_stk) =
               Cardinality({ strikes[k].day : k \in 1..Len(strikes) })
        /\ Len(bar.tot_tick) = Len(bar.tot_stk)
        /\ \A k \in 1..Len(bar.tot_tick) :
               bar.tot_tick[k] = bar.plots[k].day

====
